---- MODULE Spec2Model ----
(***************************************************************************)
(* Model of the sidelines-homework test suite: the helpers of              *)
(* config/helpers.js and the three Playwright scenarios that drive them    *)
(* (audit, resource validation, API validation).                           *)
(***************************************************************************)
EXTENDS Integers, Sequences, FiniteSets, TLC

VARIABLES
    scenario,        \* which test body runs: "audit", "resource", "api", or a direct "validate" call
    pc,              \* position in the test body
    outcome,         \* "running", "passed" or "failed": what the test runner sees
    failure,         \* what made the test body throw ("none" while nothing has)
    attachments,     \* testInfo: the report sink's attachment list, in attach order
    files,           \* fs: the set of files written, as [path, content]
    dirExists,       \* fs: whether ./reports exists
    ctx,             \* audit: the persistent browser context: "none", "open", "closed"
    closeCalls,      \* audit: number of browserContext.close() invocations
    resources,       \* validateResources: the input URL list
    vrPc,            \* validateResources: "idle", "loop", "await", "done"
    vrIdx,           \* validateResources: position of the for-of iterator (1-based)
    brokenResources, \* validateResources: the list being built
    gotoCalls,       \* page: the page.goto calls issued by validateResources, in call order
    inflight,        \* page: input positions whose navigation has started and not settled
    navLog,          \* page: the settled navigations of validateResources, as [url, outcome]
    apiName,         \* validateApiData: the label argument
    data,            \* validateApiData: the collection argument
    vaPc,            \* validateApiData: "idle", "forEach", "returned", "threw"
    vaIdx,           \* validateApiData: the forEach index (zero-based, next to visit)
    invalidEntries   \* validateApiData: the list being built

vars == <<scenario, pc, outcome, failure, attachments, files, dirExists, ctx, closeCalls,
          resources, vrPc, vrIdx, brokenResources, gotoCalls, inflight, navLog,
          apiName, data, vaPc, vaIdx, invalidEntries>>

commonVars == <<outcome, failure, attachments, files, dirExists>>
auditVars == <<ctx, closeCalls>>
vrVars == <<resources, vrPc, vrIdx, brokenResources, gotoCalls, inflight, navLog>>
vaVars == <<apiName, data, vaPc, vaIdx, invalidEntries>>

----------------------------------------------------------------------------
(* Bounds of the model.                                                    *)

MaxData == 2
MaxResources == 3

----------------------------------------------------------------------------
(* JavaScript values as they occur in API records.  A string is a sequence *)
(* of characters so that String.prototype.trim is computed, not assumed.   *)

Undef == [t |-> "undefined", c |-> <<>>, n |-> 0]
Null == [t |-> "null", c |-> <<>>, n |-> 0]
Str(chars) == [t |-> "string", c |-> chars, n |-> 0]
Num(k) == [t |-> "number", c |-> <<>>, n |-> k]

TypeOf(v) == IF v.t = "null" THEN "object" ELSE v.t

IsWhitespace(ch) == ch = " "

RECURSIVE TrimStart(_)
TrimStart(s) ==
    IF s = <<>> THEN <<>>
    ELSE IF IsWhitespace(Head(s)) THEN TrimStart(Tail(s))
    ELSE s

RECURSIVE TrimEnd(_)
TrimEnd(s) ==
    IF s = <<>> THEN <<>>
    ELSE IF IsWhitespace(s[Len(s)]) THEN TrimEnd(SubSeq(s, 1, Len(s) - 1))
    ELSE s

Trim(s) == TrimEnd(TrimStart(s))

\* ToBoolean of a value
Truthy(v) ==
    CASE v.t = "undefined" -> FALSE
      [] v.t = "null" -> FALSE
      [] v.t = "string" -> v.c # <<>>
      [] v.t = "number" -> v.n # 0

\* `v?.trim()` raises a TypeError when v is neither nullish nor a string:
\* the optional chain guards only null and undefined, and a number has no trim.
OptTrimThrows(v) == v.t \notin {"undefined", "null", "string"}

\* the value of `v?.trim()` when it does not raise
OptTrim(v) == IF v.t \in {"undefined", "null"} THEN Undef ELSE Str(Trim(v.c))

\* `!v?.trim()`
NotTrim(v) == ~Truthy(OptTrim(v))

----------------------------------------------------------------------------
(* validateApiData (helpers.js 97-130)                                     *)

Item(u, ti, b, nm) == [userId |-> u, title |-> ti, body |-> b, name |-> nm]

\* line 103: typeof userId !== "number" || !title?.trim() || !body?.trim(),
\* evaluated left to right with short circuit: "true", "false" or "throw"
PostsCond(item) ==
    IF TypeOf(item.userId) # "number" THEN "true"
    ELSE IF OptTrimThrows(item.title) THEN "throw"
    ELSE IF NotTrim(item.title) THEN "true"
    ELSE IF OptTrimThrows(item.body) THEN "throw"
    ELSE IF NotTrim(item.body) THEN "true"
    ELSE "false"

\* `cond && msg` followed by filter(Boolean): the message when cond, else dropped
AndMsg(cond, msg) == IF cond THEN <<msg>> ELSE <<>>

\* lines 109-113: every element of the array literal is evaluated
PostsReasonThrows(item) == OptTrimThrows(item.title) \/ OptTrimThrows(item.body)

PostsReason(item) ==
    AndMsg(TypeOf(item.userId) # "number", "userId is not a number")
    \o AndMsg(NotTrim(item.title), "title is empty")
    \o AndMsg(NotTrim(item.body), "body is empty")

EntryIndexBug(index) == index + 1

\* the index forEach hands to the callback, as stored in the entry (lines 105, 121)
EntryIndex(index) == index

PostsEntry(item, index) ==
    [index |-> EntryIndex(index), userId |-> item.userId, title |-> item.title,
     body |-> item.body, reason |-> PostsReason(item)]

UsersEntry(item, index) ==
    [index |-> EntryIndex(index), userName |-> item.name, reason |-> <<"name is empty">>]

\* lines 102-116: the Posts block of the callback: [threw, pushed]
PostsBlock(item, index) ==
    CASE PostsCond(item) = "throw" -> [threw |-> TRUE, pushed |-> <<>>]
      [] PostsCond(item) = "false" -> [threw |-> FALSE, pushed |-> <<>>]
      [] PostsCond(item) = "true" ->
            IF PostsReasonThrows(item) THEN [threw |-> TRUE, pushed |-> <<>>]
            ELSE [threw |-> FALSE, pushed |-> <<PostsEntry(item, index)>>]

\* lines 118-126: the Users block of the callback
UsersBlock(item, index) ==
    IF OptTrimThrows(item.name) THEN [threw |-> TRUE, pushed |-> <<>>]
    ELSE IF NotTrim(item.name) THEN [threw |-> FALSE, pushed |-> <<UsersEntry(item, index)>>]
    ELSE [threw |-> FALSE, pushed |-> <<>>]

NoBlock == [threw |-> FALSE, pushed |-> <<>>]

\* lines 99-127: one call of the forEach callback
Callback(item, index, name) ==
    LET p == IF name = "Posts" THEN PostsBlock(item, index) ELSE NoBlock
        u == IF name = "Users" THEN UsersBlock(item, index) ELSE NoBlock
    IN  IF p.threw THEN p
        ELSE [threw |-> u.threw, pushed |-> p.pushed \o u.pushed]

\* line 98, on entry to validateApiData(data, name)
ValidateApiDataCall(d, name) ==
    /\ data' = d
    /\ apiName' = name
    /\ vaPc' = "forEach"
    /\ vaIdx' = 0
    /\ invalidEntries' = <<>>

\* lines 99-127: forEach visits the next record; a fault in the callback
\* leaves forEach and validateApiData at once
ValidateApiDataVisit ==
    /\ vaPc = "forEach"
    /\ vaIdx < Len(data)
    /\ LET r == Callback(data[vaIdx + 1], vaIdx, apiName)
       IN  IF r.threw
           THEN /\ vaPc' = "threw"
                /\ UNCHANGED <<vaIdx, invalidEntries>>
           ELSE /\ invalidEntries' = invalidEntries \o r.pushed
                /\ vaIdx' = vaIdx + 1
                /\ vaPc' = "forEach"
    /\ UNCHANGED <<apiName, data>>

\* line 129
ValidateApiDataReturn ==
    /\ vaPc = "forEach"
    /\ vaIdx = Len(data)
    /\ vaPc' = "returned"
    /\ UNCHANGED <<apiName, data, vaIdx, invalidEntries>>

----------------------------------------------------------------------------
(* Inputs                                                                  *)

Sp == " "
Valid == Str(<<"a">>)
Padded == Str(<<Sp, "a", Sp>>)
Empty == Str(<<>>)
Blanks == Str(<<Sp, Sp>>)

\* the records a collection is drawn from: <<userId, title, body, name>>
RecordPool ==
    { Item(Num(1), Valid, Valid, Undef),
      Item(Num(1), Padded, Padded, Undef),
      Item(Str(<<"x">>), Empty, Valid, Undef),
      Item(Undef, Valid, Valid, Undef),
      Item(Num(0), Blanks, Valid, Undef),
      Item(Num(1), Null, Valid, Undef),
      Item(Num(1), Valid, Undef, Undef),
      Item(Num(1), Valid, Empty, Undef),
      Item(Str(<<"1">>), Undef, Blanks, Undef),
      Item(Num(1), Num(5), Valid, Undef),
      Item(Str(<<"x">>), Valid, Num(5), Undef),
      Item(Num(1), Blanks, Num(0), Valid),
      Item(Undef, Undef, Undef, Valid),
      Item(Undef, Undef, Undef, Empty),
      Item(Undef, Undef, Undef, Blanks),
      Item(Undef, Undef, Undef, Null),
      Item(Num(1), Num(5), Valid, Padded),
      Item(Undef, Undef, Undef, Num(5)),
      Item(Num(1), Valid, Valid, Blanks),
      Item(Null, Valid, Valid, Undef),
      Item(Num(1), Undef, Valid, Undef),
      Item(Num(1), Valid, Null, Undef),
      Item(Num(1), Padded, Blanks, Null) }

RECURSIVE SeqsUpTo(_, _)
SeqsUpTo(S, k) ==
    IF k = 0 THEN {<<>>}
    ELSE LET shorter == SeqsUpTo(S, k - 1)
         IN  shorter \cup {Append(s, x) : s \in {q \in shorter : Len(q) = k - 1}, x \in S}

Collections == SeqsUpTo(RecordPool, MaxData)

Labels == {"Posts", "Users", "Comments"}

----------------------------------------------------------------------------
(* The report sink (testInfo.attach) and the helpers that write to it.     *)

\* JSON.stringify(data, null, 2): a serialization of the value, not the value
Json(value) == [json |-> value]

\* a body that is the string itself
Text(string) == [text |-> string]

\* the data argument of attachToTestReport, with what typeof answers for it
StringData(string) == [typeof |-> "string", value |-> string]
ObjectData(value) == [typeof |-> "object", value |-> value]

BodyAttachment(label, body, contentType) ==
    [name |-> label, kind |-> "body", body |-> body, contentType |-> contentType]

PathAttachment(label, path, contentType) ==
    [name |-> label, kind |-> "path", path |-> path, contentType |-> contentType]

\* testInfo.attach with a JSON.stringify body (helpers.js 12-15, 89-92;
\* spec.js 96-99, 104-107)
AttachJson(label, value) ==
    attachments' = Append(attachments, BodyAttachment(label, Json(value), "application/json"))

\* testInfo.attach with a message as body (helpers.js 81-84, spec.js 109-112)
AttachText(label, text) ==
    attachments' = Append(attachments, BodyAttachment(label, Text(text), "text/plain"))

AttachBodyAlwaysJson(arg) == Json(arg.value)

\* helpers.js line 71: typeof data === "string" ? data : JSON.stringify(data, null, 2)
AttachBody(arg) ==
    IF arg.typeof = "string" THEN Text(arg.value) ELSE Json(arg.value)

\* helpers.js line 68: the default of the contentType parameter
DefaultContentType == "application/json"

\* attachToTestReport (helpers.js 64-74)
AttachToTestReport(label, arg, contentType) ==
    attachments' = Append(attachments, BodyAttachment(label, AttachBody(arg), contentType))

Attached(label) == \E i \in 1..Len(attachments) : attachments[i].name = label

CountAttached(label) ==
    Cardinality({i \in 1..Len(attachments) : attachments[i].name = label})

\* the test body ends: the runner records the result
Finish(result) ==
    /\ outcome' = result
    /\ pc' = "end"

----------------------------------------------------------------------------
(* validateResources (helpers.js 46-62)                                    *)

Urls == {"a.css", "b.js"}

StatusCodes == {200, 304, 404}

\* what `await page.goto(resource)` can do: resolve to a response, resolve to
\* null, or reject
Response(code) == [kind |-> "response", status |-> code]
NullResponse == [kind |-> "null", status |-> 0]
Fault == [kind |-> "fault", status |-> 0]

Outcomes == {Response(code) : code \in StatusCodes} \cup {NullResponse, Fault}

StatusNum(code) == [t |-> "number", n |-> code, s |-> ""]
StatusStr(text) == [t |-> "string", n |-> 0, s |-> text]

IsBrokenOnlyErrors(response) == response.kind = "null" \/ response.status >= 400

\* line 51: !response || response.status() !== 200
IsBroken(response) == response.kind = "null" \/ response.status # 200

\* line 54: response ? response.status() : "No Response"
BrokenStatus(response) ==
    IF response.kind = "response" THEN StatusNum(response.status)
    ELSE StatusStr("No Response")

\* the loop of the older inline copy (spec.js 285-298): response.status() is
\* read before the null test, so a null response raises and lands in the catch
SettleEntriesInline(resource, result) ==
    IF result.kind \in {"fault", "null"}
    THEN <<[resource |-> resource, status |-> StatusStr("Error")]>>
    ELSE IF result.status # 200
    THEN <<[resource |-> resource, status |-> BrokenStatus(result)]>>
    ELSE <<>>

\* lines 49-59: what the try/catch pushes once the navigation has settled
SettleEntries(resource, result) ==
    IF result.kind = "fault"
    THEN <<[resource |-> resource, status |-> StatusStr("Error")]>>
    ELSE IF IsBroken(result)
    THEN <<[resource |-> resource, status |-> BrokenStatus(result)]>>
    ELSE <<>>

\* line 47, on entry to validateResources(page, resources)
ValidateResourcesCall(list) ==
    /\ resources' = list
    /\ vrPc' = "loop"
    /\ vrIdx' = 1
    /\ brokenResources' = <<>>
    /\ UNCHANGED <<gotoCalls, inflight, navLog>>

\* line 50: page.goto(resource) is called and the function suspends on it
ValidateResourcesGoto ==
    /\ vrPc = "loop"
    /\ vrIdx <= Len(resources)
    /\ gotoCalls' = Append(gotoCalls, vrIdx)
    /\ inflight' = inflight \cup {vrIdx}
    /\ vrPc' = "await"
    /\ UNCHANGED <<resources, vrIdx, brokenResources, navLog>>

\* a loop without the try/catch: a rejected navigation leaves the function
ValidateResourcesSettleNoCatch ==
    /\ vrPc = "await"
    /\ \E result \in Outcomes :
        /\ navLog' = Append(navLog, [url |-> resources[vrIdx], outcome |-> result])
        /\ brokenResources' = brokenResources \o SettleEntries(resources[vrIdx], result)
        /\ vrPc' = IF result.kind = "fault" THEN "done" ELSE "loop"
    /\ inflight' = inflight \ {vrIdx}
    /\ vrIdx' = vrIdx + 1
    /\ UNCHANGED <<resources, gotoCalls>>

\* lines 50-59: the navigation settles, the outcome is classified, and the
\* for-of loop moves to the next resource
ValidateResourcesSettle ==
    /\ vrPc = "await"
    /\ \E result \in Outcomes :
        /\ navLog' = Append(navLog, [url |-> resources[vrIdx], outcome |-> result])
        /\ brokenResources' = brokenResources \o SettleEntries(resources[vrIdx], result)
    /\ inflight' = inflight \ {vrIdx}
    /\ vrIdx' = vrIdx + 1
    /\ vrPc' = "loop"
    /\ UNCHANGED <<resources, gotoCalls>>

\* line 61
ValidateResourcesReturn ==
    /\ vrPc = "loop"
    /\ vrIdx > Len(resources)
    /\ vrPc' = "done"
    /\ UNCHANGED <<resources, vrIdx, brokenResources, gotoCalls, inflight, navLog>>

ResourceLists == SeqsUpTo(Urls, MaxResources)

----------------------------------------------------------------------------
(* Filesystem helpers                                                      *)

\* fs.writeFileSync(path, JSON.stringify(data, null, 2)): overwrite by path
WriteFile(path, value) ==
    files' = {f \in files : f.path # path} \cup {[path |-> path, content |-> Json(value)]}

\* ensureDirectoryExists (helpers.js 4-8) completes: the directory is there
\* already, or mkdirSync creates it
EnsureDirectoryExistsOk == dirExists' = TRUE

\* ensureDirectoryExists (helpers.js 4-8) raises: the directory is absent and
\* mkdirSync fails
EnsureDirectoryExistsRaises ==
    /\ ~dirExists
    /\ dirExists' = FALSE

----------------------------------------------------------------------------
(* Resource scenario (website-analysis-and-resource-validation.spec.js     *)
(* 120-161)                                                                *)

\* line 127: await page.goto(url)
ResourceGoto ==
    /\ scenario = "resource" /\ pc = "r_goto"
    /\ \/ /\ pc' = "r_collect"
          /\ UNCHANGED failure
       \/ /\ failure' = "goto"
          /\ pc' = "r_catch"
    /\ UNCHANGED <<scenario, outcome, attachments, files, dirExists>>
    /\ UNCHANGED <<auditVars, vrVars, vaVars>>

\* line 130: collectResources(page) returns the URLs of the document
ResourceCollect ==
    /\ scenario = "resource" /\ pc = "r_collect"
    /\ \E list \in ResourceLists : resources' = list
    /\ pc' = "r_attachLinked"
    /\ UNCHANGED <<scenario, commonVars, auditVars, vaVars>>
    /\ UNCHANGED <<vrPc, vrIdx, brokenResources, gotoCalls, inflight, navLog>>

\* line 131
ResourceAttachLinked ==
    /\ scenario = "resource" /\ pc = "r_attachLinked"
    /\ AttachToTestReport("Linked Resources", ObjectData(resources), DefaultContentType)
    /\ pc' = "r_call"
    /\ UNCHANGED <<scenario, outcome, failure, files, dirExists>>
    /\ UNCHANGED <<auditVars, vrVars, vaVars>>

\* line 134: validateResources(page, resources) is entered
ResourceCallValidate ==
    /\ scenario = "resource" /\ pc = "r_call"
    /\ ValidateResourcesCall(resources)
    /\ pc' = "r_validate"
    /\ UNCHANGED <<scenario, commonVars, auditVars, vaVars>>

\* the steps of validateResources while the scenario awaits it
ResourceValidateGoto ==
    /\ scenario = "resource" /\ pc = "r_validate"
    /\ ValidateResourcesGoto
    /\ UNCHANGED <<scenario, pc, commonVars, auditVars, vaVars>>

ResourceValidateSettle ==
    /\ scenario = "resource" /\ pc = "r_validate"
    /\ ValidateResourcesSettle
    /\ UNCHANGED <<scenario, pc, commonVars, auditVars, vaVars>>

ResourceValidateReturn ==
    /\ scenario = "resource" /\ pc = "r_validate"
    /\ ValidateResourcesReturn
    /\ UNCHANGED <<scenario, pc, commonVars, auditVars, vaVars>>

\* a scenario that attaches the list whether or not it is empty
AttachBrokenAlways ==
    AttachToTestReport("Broken Resources", ObjectData(brokenResources), DefaultContentType)

\* lines 135-137 and again 140-142: attach the list if it is not empty
AttachBrokenIfAny ==
    IF Len(brokenResources) > 0
    THEN AttachToTestReport("Broken Resources", ObjectData(brokenResources), DefaultContentType)
    ELSE UNCHANGED attachments

\* lines 135-137
ResourceAttachBroken ==
    /\ scenario = "resource" /\ pc = "r_validate" /\ vrPc = "done"
    /\ AttachBrokenIfAny
    /\ pc' = "r_attachAgain"
    /\ UNCHANGED <<scenario, outcome, failure, files, dirExists>>
    /\ UNCHANGED <<auditVars, vrVars, vaVars>>

\* lines 140-142
ResourceAttachBrokenAgain ==
    /\ scenario = "resource" /\ pc = "r_attachAgain"
    /\ AttachBrokenIfAny
    /\ pc' = "r_expect"
    /\ UNCHANGED <<scenario, outcome, failure, files, dirExists>>
    /\ UNCHANGED <<auditVars, vrVars, vaVars>>

\* lines 145-150: expect(brokenResources).toHaveLength(0): passing ends the
\* step, failing raises inside the try
ResourceExpect ==
    /\ scenario = "resource" /\ pc = "r_expect"
    /\ IF Len(brokenResources) = 0
       THEN /\ Finish("passed")
            /\ UNCHANGED failure
       ELSE /\ failure' = "expect"
            /\ pc' = "r_catch"
            /\ UNCHANGED outcome
    /\ UNCHANGED <<scenario, attachments, files, dirExists>>
    /\ UNCHANGED <<auditVars, vrVars, vaVars>>

\* lines 151-157
ResourceCatch ==
    /\ scenario = "resource" /\ pc = "r_catch"
    /\ AttachToTestReport("Validation Error", StringData(failure), "text/plain")
    /\ pc' = "r_rethrow"
    /\ UNCHANGED <<scenario, outcome, failure, files, dirExists>>
    /\ UNCHANGED <<auditVars, vrVars, vaVars>>

\* line 158
ResourceRethrow ==
    /\ scenario = "resource" /\ pc = "r_rethrow"
    /\ Finish("failed")
    /\ UNCHANGED <<scenario, failure, attachments, files, dirExists>>
    /\ UNCHANGED <<auditVars, vrVars, vaVars>>

ResourceNext ==
    \/ ResourceGoto
    \/ ResourceCollect
    \/ ResourceAttachLinked
    \/ ResourceCallValidate
    \/ ResourceValidateGoto
    \/ ResourceValidateSettle
    \/ ResourceValidateReturn
    \/ ResourceAttachBroken
    \/ ResourceAttachBrokenAgain
    \/ ResourceExpect
    \/ ResourceCatch
    \/ ResourceRethrow

----------------------------------------------------------------------------
(* fetchApiData (helpers.js 76-95) as called by the API scenario           *)
(* (api-validation.spec.js 48-74)                                          *)

FetchStatuses == {200, 201, 404, 500}

\* response.ok
ResponseOk(status) == status >= 200 /\ status <= 299

\* `Failed to fetch data from ${label}. Status: ${response.status}`
FetchErrorMsg(label, status) == <<"Failed to fetch data from", label, status>>

LogLabel(name) ==
    CASE name = "Posts" -> "Validation Log for Posts"
      [] name = "Users" -> "Validation Log for Users"
      [] OTHER -> "Validation Log"

FetchedLabel(name) ==
    CASE name = "Posts" -> "Fetched Data from Posts"
      [] name = "Users" -> "Fetched Data from Users"
      [] OTHER -> "Fetched Data"

\* path.join(reportsDir, `validation-log-${name.toLowerCase()}.json`)
LogFilePath(name) ==
    CASE name = "Posts" -> "reports/validation-log-posts.json"
      [] name = "Users" -> "reports/validation-log-users.json"
      [] OTHER -> "reports/validation-log.json"

\* spec.js line 51: ensureDirectoryExists(reportsDir) is not awaited, so a
\* failing mkdirSync only rejects a promise nobody holds and the body goes on
ApiEnsureDir ==
    /\ scenario = "api" /\ pc = "a_ensureDir"
    /\ \/ EnsureDirectoryExistsOk
       \/ EnsureDirectoryExistsRaises
    /\ pc' = "a_fetch"
    /\ UNCHANGED <<scenario, outcome, failure, attachments, files>>
    /\ UNCHANGED <<auditVars, vrVars, vaVars>>

\* helpers.js line 77: `await fetch(url)` rejects; nothing in fetchApiData or
\* in the test body catches it
FetchRejects ==
    /\ scenario = "api" /\ pc = "a_fetch"
    /\ failure' = "fetch-network"
    /\ pc' = "a_throw"
    /\ UNCHANGED <<scenario, outcome, attachments, files, dirExists>>
    /\ UNCHANGED <<auditVars, vrVars, vaVars>>

\* helpers.js lines 77-84: a response arrives; when it is not ok the error
\* message is attached, and line 85 raises next
FetchResponds ==
    /\ scenario = "api" /\ pc = "a_fetch"
    /\ \E status \in FetchStatuses :
        IF ResponseOk(status)
        THEN /\ pc' = "a_json"
             /\ UNCHANGED <<failure, attachments>>
        ELSE /\ AttachText("Fetch Error", FetchErrorMsg(apiName, status))
             /\ failure' = "fetch-status"
             /\ pc' = "a_throw"
    /\ UNCHANGED <<scenario, outcome, files, dirExists>>
    /\ UNCHANGED <<auditVars, vrVars, vaVars>>

\* helpers.js lines 88-94: the body decodes, is attached and returned
FetchJsonOk ==
    /\ scenario = "api" /\ pc = "a_json"
    /\ \E d \in Collections :
        /\ data' = d
        /\ AttachJson(FetchedLabel(apiName), d)
    /\ pc' = "a_call"
    /\ UNCHANGED <<scenario, outcome, failure, files, dirExists>>
    /\ UNCHANGED <<auditVars, vrVars, apiName, vaPc, vaIdx, invalidEntries>>

\* helpers.js line 88: `await response.json()` rejects on a body that is not JSON
FetchJsonRejects ==
    /\ scenario = "api" /\ pc = "a_json"
    /\ failure' = "fetch-json"
    /\ pc' = "a_throw"
    /\ UNCHANGED <<scenario, outcome, attachments, files, dirExists>>
    /\ UNCHANGED <<auditVars, vrVars, vaVars>>

\* spec.js line 60: validateApiData(data, name) is entered
ApiCallValidate ==
    /\ scenario = "api" /\ pc = "a_call"
    /\ ValidateApiDataCall(data, apiName)
    /\ pc' = "a_validate"
    /\ UNCHANGED <<scenario, commonVars, auditVars, vrVars>>

\* the steps of validateApiData, in the scenario or called directly
ValidateVisit ==
    /\ pc \in {"a_validate", "v_validate"}
    /\ ValidateApiDataVisit
    /\ UNCHANGED <<scenario, pc, commonVars, auditVars, vrVars>>

ValidateReturn ==
    /\ pc \in {"a_validate", "v_validate"}
    /\ ValidateApiDataReturn
    /\ UNCHANGED <<scenario, pc, commonVars, auditVars, vrVars>>

\* spec.js line 60: a fault of validateApiData leaves the test body
ApiValidateThrew ==
    /\ scenario = "api" /\ pc = "a_validate" /\ vaPc = "threw"
    /\ failure' = "validate"
    /\ pc' = "a_throw"
    /\ UNCHANGED <<scenario, outcome, attachments, files, dirExists>>
    /\ UNCHANGED <<auditVars, vrVars, vaVars>>

\* a saveAndAttachLog that registers the attachment before it writes
ApiWriteLogAttachFirst ==
    /\ scenario = "api" /\ pc = "a_validate" /\ vaPc = "returned"
    /\ attachments' = Append(attachments,
            PathAttachment(LogLabel(apiName), LogFilePath(apiName), "application/json"))
    /\ \/ /\ dirExists
          /\ WriteFile(LogFilePath(apiName), invalidEntries)
          /\ pc' = "a_expect"
          /\ UNCHANGED failure
       \/ /\ failure' = "write"
          /\ pc' = "a_throw"
          /\ UNCHANGED files
    /\ UNCHANGED <<scenario, outcome, dirExists>>
    /\ UNCHANGED <<auditVars, vrVars, vaVars>>

\* saveAndAttachLog, helpers.js line 133: the write succeeds (the directory
\* has to be there) or raises
ApiWriteLog ==
    /\ scenario = "api" /\ pc = "a_validate" /\ vaPc = "returned"
    /\ \/ /\ dirExists
          /\ WriteFile(LogFilePath(apiName), invalidEntries)
          /\ pc' = "a_attachLog"
          /\ UNCHANGED failure
       \/ /\ failure' = "write"
          /\ pc' = "a_throw"
          /\ UNCHANGED files
    /\ UNCHANGED <<scenario, outcome, attachments, dirExists>>
    /\ UNCHANGED <<auditVars, vrVars, vaVars>>

\* saveAndAttachLog, helpers.js lines 134-137
ApiAttachLog ==
    /\ scenario = "api" /\ pc = "a_attachLog"
    /\ attachments' = Append(attachments,
            PathAttachment(LogLabel(apiName), LogFilePath(apiName), "application/json"))
    /\ pc' = "a_expect"
    /\ UNCHANGED <<scenario, outcome, failure, files, dirExists>>
    /\ UNCHANGED <<auditVars, vrVars, vaVars>>

\* spec.js lines 69-72: expect(invalidEntries).toHaveLength(0)
ApiExpect ==
    /\ scenario = "api" /\ pc = "a_expect"
    /\ IF Len(invalidEntries) = 0
       THEN /\ Finish("passed")
            /\ UNCHANGED failure
       ELSE /\ failure' = "expect"
            /\ pc' = "a_throw"
            /\ UNCHANGED outcome
    /\ UNCHANGED <<scenario, attachments, files, dirExists>>
    /\ UNCHANGED <<auditVars, vrVars, vaVars>>

\* the fault reaches the test runner: the test body has no try/catch
ApiThrow ==
    /\ scenario = "api" /\ pc = "a_throw"
    /\ Finish("failed")
    /\ UNCHANGED <<scenario, failure, attachments, files, dirExists>>
    /\ UNCHANGED <<auditVars, vrVars, vaVars>>

ApiNext ==
    \/ ApiEnsureDir
    \/ FetchRejects
    \/ FetchResponds
    \/ FetchJsonOk
    \/ FetchJsonRejects
    \/ ApiCallValidate
    \/ ValidateVisit
    \/ ValidateReturn
    \/ ApiValidateThrew
    \/ ApiWriteLog
    \/ ApiAttachLog
    \/ ApiExpect
    \/ ApiThrow

----------------------------------------------------------------------------
(* Audit scenario (website-analysis-and-resource-validation.spec.js        *)
(* 50-118)                                                                 *)

ReportPath == "reports/lighthouse-report.json"

\* line 57: await import("lighthouse")
AuditImport ==
    /\ scenario = "audit" /\ pc = "u_import"
    /\ \/ /\ pc' = "u_launch"
          /\ UNCHANGED failure
       \/ /\ failure' = "import"
          /\ pc' = "u_throw"
    /\ UNCHANGED <<scenario, outcome, attachments, files, dirExists>>
    /\ UNCHANGED <<auditVars, vrVars, vaVars>>

\* lines 59-65: chromium.launchPersistentContext
AuditLaunch ==
    /\ scenario = "audit" /\ pc = "u_launch"
    /\ \/ /\ ctx' = "open"
          /\ pc' = "u_ensureDir"
          /\ UNCHANGED failure
       \/ /\ failure' = "launch"
          /\ pc' = "u_throw"
          /\ UNCHANGED ctx
    /\ UNCHANGED <<scenario, outcome, attachments, files, dirExists, closeCalls>>
    /\ UNCHANGED <<vrVars, vaVars>>

\* line 72: await ensureDirectoryExists(reportsDir), before the try of line
\* 74: a fault here leaves the step without reaching the catch or the finally
AuditEnsureDir ==
    /\ scenario = "audit" /\ pc = "u_ensureDir"
    /\ \/ /\ EnsureDirectoryExistsOk
          /\ pc' = "u_lighthouse"
          /\ UNCHANGED failure
       \/ /\ EnsureDirectoryExistsRaises
          /\ failure' = "mkdir"
          /\ pc' = "u_throw"
    /\ UNCHANGED <<scenario, outcome, attachments, files>>
    /\ UNCHANGED <<auditVars, vrVars, vaVars>>

\* lines 76-86: the scoring oracle runs
AuditLighthouse ==
    /\ scenario = "audit" /\ pc = "u_lighthouse"
    /\ \/ /\ pc' = "u_saveReport"
          /\ UNCHANGED failure
       \/ /\ failure' = "lighthouse"
          /\ pc' = "u_catch"
    /\ UNCHANGED <<scenario, outcome, attachments, files, dirExists>>
    /\ UNCHANGED <<auditVars, vrVars, vaVars>>

\* lines 89-94, saveReport (helpers.js 10-16): write, then attach
AuditSaveReport ==
    /\ scenario = "audit" /\ pc = "u_saveReport"
    /\ \/ /\ WriteFile(ReportPath, "lhr")
          /\ AttachJson("Lighthouse Report", "lhr")
          /\ pc' = "u_attachReport"
          /\ UNCHANGED failure
       \/ /\ failure' = "write"
          /\ pc' = "u_catch"
          /\ UNCHANGED <<files, attachments>>
    /\ UNCHANGED <<scenario, outcome, dirExists>>
    /\ UNCHANGED <<auditVars, vrVars, vaVars>>

\* lines 96-99
AuditAttachReport ==
    /\ scenario = "audit" /\ pc = "u_attachReport"
    /\ AttachJson("Lighthouse Report", "lhr")
    /\ pc' = "u_extract"
    /\ UNCHANGED <<scenario, outcome, failure, files, dirExists>>
    /\ UNCHANGED <<auditVars, vrVars, vaVars>>

\* line 102, extractLighthouseScores (helpers.js 26-33): raises when a
\* category is missing from the result
AuditExtractScores ==
    /\ scenario = "audit" /\ pc = "u_extract"
    /\ \/ /\ pc' = "u_attachScores"
          /\ UNCHANGED failure
       \/ /\ failure' = "scores"
          /\ pc' = "u_catch"
    /\ UNCHANGED <<scenario, outcome, attachments, files, dirExists>>
    /\ UNCHANGED <<auditVars, vrVars, vaVars>>

\* lines 104-107
AuditAttachScores ==
    /\ scenario = "audit" /\ pc = "u_attachScores"
    /\ AttachJson("Lighthouse Scores", "scores")
    /\ pc' = "u_finally"
    /\ UNCHANGED <<scenario, outcome, failure, files, dirExists>>
    /\ UNCHANGED <<auditVars, vrVars, vaVars>>

\* lines 108-113: the error is attached and rethrown; the finally runs first
AuditCatch ==
    /\ scenario = "audit" /\ pc = "u_catch"
    /\ AttachText("Lighthouse Error", failure)
    /\ pc' = "u_finally"
    /\ UNCHANGED <<scenario, outcome, failure, files, dirExists>>
    /\ UNCHANGED <<auditVars, vrVars, vaVars>>

\* lines 114-116, closeBrowserContextSafely (helpers.js 18-24): close() is
\* called; a fault of close() is logged and swallowed
AuditFinally ==
    /\ scenario = "audit" /\ pc = "u_finally"
    /\ closeCalls' = closeCalls + 1
    /\ \/ ctx' = "closed"
       \/ UNCHANGED ctx
    /\ pc' = "u_exit"
    /\ UNCHANGED <<scenario, commonVars, vrVars, vaVars>>

\* the step ends normally, or the rethrown error leaves it
AuditExit ==
    /\ scenario = "audit" /\ pc = "u_exit"
    /\ IF failure = "none" THEN Finish("passed") ELSE Finish("failed")
    /\ UNCHANGED <<scenario, failure, attachments, files, dirExists>>
    /\ UNCHANGED <<auditVars, vrVars, vaVars>>

\* a fault outside the try reaches the test runner directly
AuditThrow ==
    /\ scenario = "audit" /\ pc = "u_throw"
    /\ Finish("failed")
    /\ UNCHANGED <<scenario, failure, attachments, files, dirExists>>
    /\ UNCHANGED <<auditVars, vrVars, vaVars>>

AuditNext ==
    \/ AuditImport
    \/ AuditLaunch
    \/ AuditEnsureDir
    \/ AuditLighthouse
    \/ AuditSaveReport
    \/ AuditAttachReport
    \/ AuditExtractScores
    \/ AuditAttachScores
    \/ AuditCatch
    \/ AuditFinally
    \/ AuditExit
    \/ AuditThrow

----------------------------------------------------------------------------
(* The whole system: one test body per behaviour, or a direct call of      *)
(* validateApiData with any label.                                         *)

Scenarios == {"audit", "resource", "api", "validate"}

StartPc(s) ==
    CASE s = "audit" -> "u_import"
      [] s = "resource" -> "r_goto"
      [] s = "api" -> "a_ensureDir"
      [] s = "validate" -> "v_validate"

\* apiEndpoints (api-validation.spec.js 44-46)
ApiEndpointNames == {"Posts"}

Init ==
    /\ scenario \in Scenarios
    /\ pc = StartPc(scenario)
    /\ outcome = "running"
    /\ failure = "none"
    /\ attachments = <<>>
    /\ files = {}
    /\ dirExists \in (IF scenario \in {"audit", "api"} THEN BOOLEAN ELSE {FALSE})
    /\ ctx = "none"
    /\ closeCalls = 0
    /\ resources = <<>>
    /\ vrPc = "idle"
    /\ vrIdx = 1
    /\ brokenResources = <<>>
    /\ gotoCalls = <<>>
    /\ inflight = {}
    /\ navLog = <<>>
    /\ apiName \in (IF scenario = "validate" THEN Labels ELSE ApiEndpointNames)
    /\ data \in (IF scenario = "validate" THEN Collections ELSE {<<>>})
    /\ vaPc = (IF scenario = "validate" THEN "forEach" ELSE "idle")
    /\ vaIdx = 0
    /\ invalidEntries = <<>>

Next ==
    \/ ResourceNext
    \/ ApiNext
    \/ AuditNext

Spec == Init /\ [][Next]_vars

\* the resource scenario alone, with the fairness its awaits have: every
\* page.goto settles (Playwright resolves, rejects or times out)
ResourceInit == Init /\ scenario = "resource"

ResourceSpec == ResourceInit /\ [][ResourceNext]_vars /\ WF_vars(ResourceNext)

----------------------------------------------------------------------------
(* Properties of validateResources                                         *)

IsOk200(result) == result.kind = "response" /\ result.status = 200

\* the positions of the settled navigations whose outcome is not a 200 response
BrokenPositions(log) ==
    SelectSeq([i \in 1..Len(log) |-> i], LAMBDA i : ~IsOk200(log[i].outcome))

NavigatedInInputOrder ==
    /\ Len(navLog) <= Len(resources)
    /\ \A i \in 1..Len(navLog) : navLog[i].url = resources[i]

\* C1: validateResources lists a URL occurrence if and only if its outcome is
\* not a response with status 200, in input order, at most once per
\* occurrence, with the input URL as the entry's resource; when it returns,
\* every occurrence has been decided.
C1_BrokenIffNot200 ==
    vrPc # "idle" =>
        /\ NavigatedInInputOrder
        /\ Len(brokenResources) = Len(BrokenPositions(navLog))
        /\ \A k \in 1..Len(brokenResources) :
              k <= Len(BrokenPositions(navLog)) =>
                  brokenResources[k].resource = resources[BrokenPositions(navLog)[k]]
        /\ vrPc = "done" => Len(navLog) = Len(resources)

\* the same URL occurs twice, loads with 200 once and fails once, and only the
\* failing occurrence is listed
C1_Witness ==
    /\ vrPc = "done"
    /\ Len(resources) = 3
    /\ resources[1] = resources[3]
    /\ IsOk200(navLog[1].outcome)
    /\ navLog[2].outcome.kind = "fault"
    /\ navLog[3].outcome = Response(304)
    /\ Len(brokenResources) = 2

\* C2: the recorded status is "Error" exactly for a navigation that raised,
\* "No Response" for one that returned no response, and the numeric code for a
\* response that is not 200; a number is recorded only for a response.
C2_StatusClassified ==
    \A k \in 1..Len(brokenResources) :
        k <= Len(BrokenPositions(navLog)) =>
            LET result == navLog[BrokenPositions(navLog)[k]].outcome
                status == brokenResources[k].status
            IN  /\ result.kind = "fault" => status = StatusStr("Error")
                /\ result.kind = "null" => status = StatusStr("No Response")
                /\ result.kind = "response" => status = StatusNum(result.status)
                /\ status.t = "number" => result.kind = "response"
                /\ status = StatusStr("Error") => result.kind = "fault"

\* one run records all three classes
C2_Witness ==
    /\ vrPc = "done"
    /\ Len(brokenResources) = 3
    /\ brokenResources[1].status = StatusStr("No Response")
    /\ brokenResources[2].status = StatusStr("Error")
    /\ brokenResources[3].status = StatusNum(404)

C3_SequentialInv ==
    /\ Cardinality(inflight) <= 1
    /\ gotoCalls = [i \in 1..Len(gotoCalls) |-> i]
    /\ Len(gotoCalls) <= Len(resources)
    /\ Len(navLog) <= Len(gotoCalls)
    /\ Len(gotoCalls) <= Len(navLog) + 1
    /\ vrPc = "await" => inflight = {Len(gotoCalls)} /\ Len(navLog) = Len(gotoCalls) - 1
    /\ vrPc \in {"loop", "done"} => inflight = {} /\ Len(navLog) = Len(gotoCalls)
    /\ vrPc = "done" => Len(gotoCalls) = Len(resources)

\* C3: validateResources navigates the shared page strictly sequentially: one
\* page.goto per input position, in input order, never two in flight, never
\* one position twice; whatever the outcomes, every URL is navigated and the
\* function returns.
C3_Sequential ==
    /\ []C3_SequentialInv
    /\ (vrPc = "loop") ~> (vrPc = "done")

\* a fault, a null response and a 404 in a row, and the loop still reaches
\* the end of the list
C3_Witness ==
    /\ vrPc = "done"
    /\ Len(resources) = 3
    /\ Len(gotoCalls) = 3
    /\ navLog[1].outcome.kind = "fault"
    /\ navLog[2].outcome.kind = "null"
    /\ navLog[3].outcome = Response(404)

----------------------------------------------------------------------------
(* Properties of validateApiData                                           *)

\* blank as the specification defines it: null, undefined, or a string that
\* holds nothing but whitespace
IsBlank(v) ==
    \/ v.t \in {"null", "undefined"}
    \/ v.t = "string" /\ \A i \in 1..Len(v.c) : v.c[i] = " "

\* the violated Posts conditions of a record, in the fixed order
ViolatedPosts(r) ==
    (IF r.userId.t # "number" THEN <<"userId is not a number">> ELSE <<>>)
    \o (IF IsBlank(r.title) THEN <<"title is empty">> ELSE <<>>)
    \o (IF IsBlank(r.body) THEN <<"body is empty">> ELSE <<>>)

\* the [index, reason] pairs the Posts rules ask for, over the first k records
RECURSIVE ExpectedPosts(_, _)
ExpectedPosts(d, k) ==
    IF k = 0 THEN <<>>
    ELSE ExpectedPosts(d, k - 1)
         \o (IF ViolatedPosts(d[k]) # <<>>
             THEN <<[index |-> k - 1, reason |-> ViolatedPosts(d[k])]>>
             ELSE <<>>)

\* the [index, reason] pairs the Users rule asks for, over the first k records
RECURSIVE ExpectedUsers(_, _)
ExpectedUsers(d, k) ==
    IF k = 0 THEN <<>>
    ELSE ExpectedUsers(d, k - 1)
         \o (IF IsBlank(d[k].name)
             THEN <<[index |-> k - 1, reason |-> <<"name is empty">>]>>
             ELSE <<>>)

IndexAndReason(entries) ==
    [k \in 1..Len(entries) |-> [index |-> entries[k].index, reason |-> entries[k].reason]]

ValidateFinished == vaPc \in {"returned", "threw"}

\* C4: for label "Posts" validateApiData yields an entry for exactly the
\* records with a non-number userId, a blank title or a blank body, and each
\* entry's reason lists exactly the violated conditions in the fixed order.
C4_PostsEntries ==
    (apiName = "Posts" /\ ValidateFinished) =>
        /\ vaPc = "returned"
        /\ IndexAndReason(invalidEntries) = ExpectedPosts(data, Len(data))

\* what remains of C4 on the calls that return
C4_PostsEntriesWhenReturned ==
    (apiName = "Posts" /\ vaPc = "returned") =>
        IndexAndReason(invalidEntries) = ExpectedPosts(data, Len(data))

\* C5: the list validateApiData returns is index-stable and in input order:
\* each entry's index is the zero-based position of the record it copies, the
\* indexes increase strictly, and there is at most one entry per record.
C5_IndexStable ==
    vaPc # "idle" =>
        /\ Len(invalidEntries) <= Len(data)
        /\ \A k \in 1..Len(invalidEntries) :
              LET e == invalidEntries[k]
              IN  /\ e.index \in 0..(Len(data) - 1)
                  /\ k > 1 => invalidEntries[k - 1].index < e.index
                  /\ apiName = "Posts" =>
                        /\ e.userId = data[e.index + 1].userId
                        /\ e.title = data[e.index + 1].title
                        /\ e.body = data[e.index + 1].body
                  /\ apiName = "Users" => e.userName = data[e.index + 1].name

\* a valid record followed by an invalid one: the single entry carries index 1
C5_Witness ==
    /\ vaPc = "returned"
    /\ Len(data) = 2
    /\ Len(invalidEntries) = 1
    /\ invalidEntries[1].index = 1

\* C6: for label "Users" validateApiData yields an entry for exactly the
\* records whose name is blank, with the single reason "name is empty",
\* whatever userId, title and body hold.
C6_UsersEntries ==
    (apiName = "Users" /\ ValidateFinished) =>
        /\ vaPc = "returned"
        /\ IndexAndReason(invalidEntries) = ExpectedUsers(data, Len(data))

\* what remains of C6 on the calls that return
C6_UsersEntriesWhenReturned ==
    (apiName = "Users" /\ vaPc = "returned") =>
        IndexAndReason(invalidEntries) = ExpectedUsers(data, Len(data))

\* C7: validateApiData visits every record and returns, whatever the types of
\* the field values: no record makes it raise.
C7_NeverRaises ==
    /\ vaPc # "threw"
    /\ vaPc = "returned" => vaIdx = Len(data)

----------------------------------------------------------------------------
(* Properties of the scenarios                                             *)

\* C8: once the persistent context has been launched, the audit scenario
\* never finishes without having called close() on it, and a fault of close()
\* does not change the scenario's result.
C8_ContextClosedOnEveryExit ==
    (scenario = "audit" /\ pc = "end" /\ ctx # "none") =>
        /\ closeCalls >= 1
        /\ outcome = "passed" <=> failure = "none"

\* what remains of C8 for the faults raised inside the try
C8_ClosedAfterTry ==
    (scenario = "audit" /\ pc = "end" /\ ctx # "none" /\ failure # "mkdir") =>
        closeCalls = 1

\* C9: when the fetch fails, by status or by a network fault, fetchApiData
\* has attached a description of the failure before the fault reaches the
\* caller and returns no data; on a 2xx response it attaches and returns the
\* data without raising.
C9_FetchFailureAttached ==
    /\ (scenario = "api" /\ failure \in {"fetch-network", "fetch-status"}) =>
            /\ Attached("Fetch Error")
            /\ ~Attached(FetchedLabel(apiName))
            /\ vaPc = "idle"
    /\ failure # "fetch-json"
    /\ (scenario = "api" /\ vaPc # "idle") => Attached(FetchedLabel(apiName))

\* what remains of C9 for a response that is not ok
C9_StatusFailureAttached ==
    (scenario = "api" /\ failure = "fetch-status") =>
        /\ Attached("Fetch Error")
        /\ ~Attached(FetchedLabel(apiName))
        /\ vaPc = "idle"

LogWritten ==
    [path |-> LogFilePath(apiName), content |-> Json(invalidEntries)] \in files

LogAttached ==
    \E i \in 1..Len(attachments) :
        attachments[i] = PathAttachment(LogLabel(apiName), LogFilePath(apiName), "application/json")

BrokenAttachment == BodyAttachment("Broken Resources", Json(brokenResources), "application/json")

\* C10 as stated: when a scenario is about to evaluate its zero-violation
\* assertion, the list it asserts on has been attached, empty or not.
C10_AlwaysAttached ==
    /\ pc = "a_expect" => LogWritten /\ LogAttached
    /\ pc = "r_expect" => Attached("Broken Resources")

\* C10, amended: before the assertion is evaluated the API scenario has
\* written and attached the invalid-entry log, empty or not; the resource
\* scenario has attached the broken-resource list (twice) when it is not
\* empty and has attached no such list when it is empty.
C10_AttachedBeforeAssertion ==
    /\ pc = "a_expect" => LogWritten /\ LogAttached
    /\ pc = "r_expect" =>
          IF Len(brokenResources) > 0
          THEN /\ CountAttached("Broken Resources") = 2
               /\ \A i \in 1..Len(attachments) :
                     attachments[i].name = "Broken Resources" =>
                         attachments[i] = BrokenAttachment
          ELSE ~Attached("Broken Resources")

\* a passing resource run: resources were checked, none is broken, and the
\* assertion is reached with no broken-resource attachment
C10_Witness ==
    /\ pc = "r_expect"
    /\ Len(resources) = 2
    /\ brokenResources = <<>>
    /\ Attached("Linked Resources")
    /\ ~Attached("Broken Resources")

----------------------------------------------------------------------------
(* Properties of the report writer                                         *)

PathAttachmentCount ==
    Cardinality({i \in 1..Len(attachments) : attachments[i].kind = "path"})

\* saveAndAttachLog has returned to the API scenario
SaveAndAttachLogReturned ==
    scenario = "api" /\ (pc = "a_expect" \/ failure = "expect" \/ outcome = "passed")

\* one in-memory attachment is added and the filesystem is left alone
OneBodyAdded(label, body, contentType) ==
    /\ attachments' = Append(attachments, BodyAttachment(label, body, contentType))
    /\ files' = files
    /\ dirExists' = dirExists

C11_ReportWriterInv ==
    /\ scenario = "api" =>
          PathAttachmentCount = (IF SaveAndAttachLogReturned THEN 1 ELSE 0)
    /\ pc = "a_attachLog" => LogWritten
    /\ (scenario = "api" /\ failure = "write") =>
          /\ ~LogAttached
          /\ pc = "end" => outcome = "failed"
    /\ scenario = "resource" => files = {}

C11_ReportWriterStep ==
    /\ (scenario = "api" /\ pc = "a_validate" /\ vaPc = "returned") =>
          /\ attachments' = attachments
          /\ \/ /\ pc' = "a_attachLog"
                /\ [path |-> LogFilePath(apiName), content |-> Json(invalidEntries)] \in files'
                /\ failure' = failure
             \/ /\ pc' = "a_throw"
                /\ failure' = "write"
                /\ files' = files
    /\ (scenario = "api" /\ pc = "a_attachLog") =>
          /\ attachments' = Append(attachments,
                PathAttachment(LogLabel(apiName), LogFilePath(apiName), "application/json"))
          /\ files' = files
    /\ (scenario = "api" /\ failure = "write") => attachments' = attachments
    /\ (scenario = "resource" /\ pc = "r_attachLinked") =>
          OneBodyAdded("Linked Resources", Json(resources), "application/json")
    /\ (scenario = "resource" /\ pc = "r_validate" /\ vrPc = "done"
            /\ Len(brokenResources) > 0) =>
          OneBodyAdded("Broken Resources", Json(brokenResources), "application/json")
    /\ (scenario = "resource" /\ pc = "r_attachAgain" /\ Len(brokenResources) > 0) =>
          OneBodyAdded("Broken Resources", Json(brokenResources), "application/json")
    /\ (scenario = "resource" /\ pc = "r_catch") =>
          OneBodyAdded("Validation Error", Text(failure), "text/plain")

\* C11: saveAndAttachLog writes the file before it registers the attachment
\* and registers exactly one path attachment per successful call; when the
\* write raises, the fault propagates and the attachment list stays as it
\* was.  attachToTestReport adds exactly one in-memory attachment per call,
\* whose body is the data itself when it is a string and its JSON
\* serialization otherwise, and leaves the filesystem alone.
C11_ReportWriter ==
    /\ []C11_ReportWriterInv
    /\ [][C11_ReportWriterStep]_vars

\* a failing resource run: attachToTestReport was called with two lists and
\* then with the error message, and nothing was written to disk
C11_Witness ==
    /\ scenario = "resource"
    /\ pc = "r_rethrow"
    /\ failure = "expect"
    /\ Len(attachments) = 4
    /\ attachments[1].body = Json(resources)
    /\ attachments[3].body = Json(brokenResources)
    /\ attachments[4] = BodyAttachment("Validation Error", Text("expect"), "text/plain")
    /\ files = {}

\* a failing write in the API scenario: the fault has propagated and the
\* only attachment is the one fetchApiData made
C11_WriteRaisesWitness ==
    /\ scenario = "api"
    /\ failure = "write"
    /\ dirExists
    /\ outcome = "failed"
    /\ Len(attachments) = 1
    /\ files = {}

====
